---- MODULE Spec2Model ----
(***************************************************************************)
(* The stdio-to-HTTP bridge of scholarly-assistant/mcp_http_wrapper.py:    *)
(* McpHttpWrapper.handle_request run by several concurrent requests on one *)
(* event loop, the backend processes it spawns, and the /health probe.     *)
(*                                                                         *)
(* Texts (byte strings and str alike) are sequences of characters; a       *)
(* character is a one-element lexeme such as "{" or a word such as "boom". *)
(* JSON documents are parsed and serialised as the json module does it.    *)
(***************************************************************************)
EXTENDS Integers, Sequences, FiniteSets, TLC

\* The number of HTTP POST requests the model admits (all may be in flight
\* at once).
NumReq == 2

Req == 1..NumReq

-----------------------------------------------------------------------------
(* Characters                                                              *)

Quote == "\""
NL == "\n"
\* A byte that is no valid UTF-8.
BadByte == "\\xff"
\* The two-character escapes \" and \n of a JSON string literal.
EscQuote == "\\\""
EscNL == "\\n"

Whitespace == {" ", NL}
NumberToks ==
    {"1", "2", "-32601", "-32603", "-32700", "-1", "0", "30", "60", "300",
     "301", "500"}

-----------------------------------------------------------------------------
(* Python values that json produces and consumes.  One record shape for    *)
(* all of them: t the type, s the characters of a scalar, m the members of *)
(* a container in insertion order (k the key of a dict member).            *)

PyNone == [t |-> "NoneType", s |-> <<>>, m |-> <<>>]
PyBool(b) == [t |-> "bool", s |-> <<IF b THEN "true" ELSE "false">>, m |-> <<>>]
PyInt(tok) == [t |-> "int", s |-> <<tok>>, m |-> <<>>]
PyStr(chars) == [t |-> "str", s |-> chars, m |-> <<>>]
PyList(items) == [t |-> "list", s |-> <<>>, m |-> items]
PyDict(members) == [t |-> "dict", s |-> <<>>, m |-> members]

Item(v) == [k |-> <<>>, v |-> v]
Member(k, v) == [k |-> k, v |-> v]

\* d[k] = v on a dict's members: a key already present keeps its place and
\* takes the new value.
DictSet(members, k, v) ==
    IF \E i \in 1..Len(members) : members[i].k = k
    THEN [i \in 1..Len(members) |->
            IF members[i].k = k THEN Member(k, v) ELSE members[i]]
    ELSE Append(members, Member(k, v))

HasKey(d, k) == d.t = "dict" /\ \E i \in 1..Len(d.m) : d.m[i].k = k

\* dict.get(k): the value, or None.
DictGet(d, k) ==
    IF HasKey(d, k)
    THEN (d.m[CHOOSE i \in 1..Len(d.m) : d.m[i].k = k]).v
    ELSE PyNone

-----------------------------------------------------------------------------
(* json.loads                                                              *)

Ok(v, next) == [ok |-> TRUE, val |-> v, next |-> next, msg |-> ""]
Fail(msg, at) == [ok |-> FALSE, val |-> PyNone, next |-> at, msg |-> msg]

RECURSIVE SkipWs(_, _)
SkipWs(s, i) ==
    IF i <= Len(s) /\ s[i] \in Whitespace THEN SkipWs(s, i + 1) ELSE i

\* The characters of a string literal whose opening quote is just before i.
RECURSIVE ScanString(_, _, _)
ScanString(s, i, acc) ==
    IF i > Len(s) THEN Fail("Unterminated string starting at", i)
    ELSE IF s[i] = Quote THEN Ok(PyStr(acc), i + 1)
    ELSE IF s[i] = NL THEN Fail("Invalid control character at", i)
    ELSE IF s[i] = EscQuote THEN ScanString(s, i + 1, Append(acc, Quote))
    ELSE IF s[i] = EscNL THEN ScanString(s, i + 1, Append(acc, NL))
    ELSE ScanString(s, i + 1, Append(acc, s[i]))

RECURSIVE ParseValue(_, _)
RECURSIVE ParseMembers(_, _, _)
RECURSIVE ParseItems(_, _, _)

\* One "key": value pair at i (a quote is at i), then "," or "}".
ParseMembers(s, i, acc) ==
    LET key == ScanString(s, i + 1, <<>>) IN
    IF ~key.ok THEN key
    ELSE LET c == SkipWs(s, key.next) IN
    IF c > Len(s) \/ s[c] # ":" THEN Fail("Expecting ':' delimiter", c)
    ELSE LET val == ParseValue(s, SkipWs(s, c + 1)) IN
    IF ~val.ok THEN val
    ELSE LET e == SkipWs(s, val.next)
             members == DictSet(acc, key.val.s, val.val) IN
    IF e <= Len(s) /\ s[e] = "}" THEN Ok(PyDict(members), e + 1)
    ELSE IF e > Len(s) \/ s[e] # "," THEN Fail("Expecting ',' delimiter", e)
    ELSE LET n == SkipWs(s, e + 1) IN
    IF n > Len(s) \/ s[n] # Quote
    THEN Fail("Expecting property name enclosed in double quotes", n)
    ELSE ParseMembers(s, n, members)

\* One array element at i, then "," or "]".
ParseItems(s, i, acc) ==
    LET val == ParseValue(s, i) IN
    IF ~val.ok THEN val
    ELSE LET e == SkipWs(s, val.next)
             items == Append(acc, Item(val.val)) IN
    IF e <= Len(s) /\ s[e] = "]" THEN Ok(PyList(items), e + 1)
    ELSE IF e > Len(s) \/ s[e] # "," THEN Fail("Expecting ',' delimiter", e)
    ELSE ParseItems(s, SkipWs(s, e + 1), items)

ParseValue(s, i) ==
    IF i > Len(s) THEN Fail("Expecting value", i)
    ELSE IF s[i] = Quote THEN ScanString(s, i + 1, <<>>)
    ELSE IF s[i] = "{" THEN
        LET n == SkipWs(s, i + 1) IN
        IF n <= Len(s) /\ s[n] = "}" THEN Ok(PyDict(<<>>), n + 1)
        ELSE IF n > Len(s) \/ s[n] # Quote
        THEN Fail("Expecting property name enclosed in double quotes", n)
        ELSE ParseMembers(s, n, <<>>)
    ELSE IF s[i] = "[" THEN
        LET n == SkipWs(s, i + 1) IN
        IF n <= Len(s) /\ s[n] = "]" THEN Ok(PyList(<<>>), n + 1)
        ELSE ParseItems(s, n, <<>>)
    ELSE IF s[i] = "null" THEN Ok(PyNone, i + 1)
    ELSE IF s[i] = "true" THEN Ok(PyBool(TRUE), i + 1)
    ELSE IF s[i] = "false" THEN Ok(PyBool(FALSE), i + 1)
    ELSE IF s[i] \in NumberToks THEN Ok(PyInt(s[i]), i + 1)
    ELSE Fail("Expecting value", i)

\* json.loads(s): one value between optional whitespace, nothing after it.
\* msg is the JSONDecodeError's message (its position is left out).
JsonLoads(s) ==
    LET val == ParseValue(s, SkipWs(s, 1)) IN
    IF ~val.ok THEN val
    ELSE IF SkipWs(s, val.next) # Len(s) + 1
    THEN Fail("Extra data", SkipWs(s, val.next))
    ELSE val

-----------------------------------------------------------------------------
(* json.dumps (default separators ", " and ": ")                           *)

RECURSIVE EscapeChars(_)
EscapeChars(chars) ==
    IF chars = <<>> THEN <<>>
    ELSE LET c == Head(chars) IN
         <<IF c = Quote THEN EscQuote ELSE IF c = NL THEN EscNL ELSE c>>
            \o EscapeChars(Tail(chars))

DumpStr(chars) == <<Quote>> \o EscapeChars(chars) \o <<Quote>>

RECURSIVE JsonDumps(_)
RECURSIVE DumpMembers(_, _)
DumpMembers(members, isDict) ==
    IF members = <<>> THEN <<>>
    ELSE (IF isDict THEN DumpStr(Head(members).k) \o <<":", " ">> ELSE <<>>)
         \o JsonDumps(Head(members).v)
         \o (IF Len(members) > 1 THEN <<",", " ">> ELSE <<>>)
         \o DumpMembers(Tail(members), isDict)

JsonDumps(v) ==
    CASE v.t = "NoneType" -> <<"null">>
      [] v.t = "bool" -> v.s
      [] v.t = "int" -> v.s
      [] v.t = "str" -> DumpStr(v.s)
      [] v.t = "list" -> <<"[">> \o DumpMembers(v.m, FALSE) \o <<"]">>
      [] v.t = "dict" -> <<"{">> \o DumpMembers(v.m, TRUE) \o <<"}">>

-----------------------------------------------------------------------------
(* bytes.decode()                                                          *)

Decode(bytes) ==
    IF \E i \in 1..Len(bytes) : bytes[i] = BadByte
    THEN [ok |-> FALSE, text |-> <<>>,
          msg |-> "'utf-8' codec can't decode byte 0xff"]
    ELSE [ok |-> TRUE, text |-> bytes, msg |-> ""]

-----------------------------------------------------------------------------
(* Inputs: request bodies, and what a backend process may do               *)

\* {"id":1,"method":"initialize"}
BodyCall ==
    <<"{", Quote, "id", Quote, ":", "1", ",",
      Quote, "method", Quote, ":", Quote, "initialize", Quote, "}">>
\* {"method":"ping"}: a request object without an id
BodyNoId == <<"{", Quote, "method", Quote, ":", Quote, "ping", Quote, "}">>
\* [1]: JSON, but no object
BodyList == <<"[", "1", "]">>
\* {"id":1 : cut short
BodyCut == <<"{", Quote, "id", Quote, ":", "1">>

Delivery(rt, b) == [route |-> rt, body |-> b]

\* The POST requests delivered: requests reach both routes, with a body of
\* each kind.
Posts ==
    { Delivery("/arxiv", BodyCall), Delivery("/semantic-scholar", BodyNoId),
      Delivery("/arxiv", BodyList), Delivery("/semantic-scholar", BodyCut) }

\* {"id":2,"result":"ok"}\n
OutResult ==
    <<"{", Quote, "id", Quote, ":", "2", ",",
      Quote, "result", Quote, ":", Quote, "ok", Quote, "}", NL>>
\* {"error": {"code": -32601}}\n : a JSON-RPC error without id or result
OutError ==
    <<"{", Quote, "error", Quote, ":", " ", "{", Quote, "code", Quote, ":",
      " ", "-32601", "}", "}", NL>>
OutBinary == <<BadByte>>
ErrBoom == <<"boom", NL>>

Outcome(rc, out, err) == [rc |-> rc, out |-> out, err |-> err]

\* What a backend process may leave behind when it terminates.
Outcomes ==
    { Outcome(0, OutResult, <<>>), Outcome(0, OutError, ErrBoom),
      Outcome(0, <<>>, <<>>), Outcome(0, OutBinary, <<>>),
      Outcome(1, <<>>, ErrBoom), Outcome(1, OutResult, <<>>) }

\* The smaller inputs of the requests that run beside GET /health.
FrontPosts ==
    { Delivery("/arxiv", BodyCall), Delivery("/semantic-scholar", BodyCut) }
FrontOutcomes == { Outcome(0, OutResult, <<>>), Outcome(1, <<>>, ErrBoom) }

\* {} : a request object without members
BodyEmpty == <<"{", "}">>
\* { : cut short
BodyOpen == <<"{">>
\* {}\n
OutEmpty == <<"{", "}", NL>>

\* The shortest inputs, for the requests whose scheduling is followed: a
\* body that parses and one that does not, a process that succeeds and one
\* that fails.
FairPosts ==
    { Delivery("/arxiv", BodyEmpty), Delivery("/semantic-scholar", BodyOpen) }
FairOutcomes == { Outcome(0, OutEmpty, <<>>), Outcome(1, <<>>, ErrBoom) }

-----------------------------------------------------------------------------
(* The server's state                                                      *)

Routes == {"/semantic-scholar", "/arxiv"}

VARIABLES
    pathExists,  \* whether ~/semanticscholar-MCP-Server exists now
    registry,    \* route -> McpHttpWrapper(command, args, working_dir)
    pc,          \* request -> where its handle_request coroutine stands
    route,       \* request -> the route it was posted to
    body,        \* request -> the bytes of its body
    data,        \* request -> the local `data`
    proc,        \* request -> the local `proc`, the process it spawned
    resp,        \* request -> the HTTP response sent
    spawned,     \* request -> how many processes it spawned
    responses,   \* request -> how many responses it was sent
    health,      \* the last answer of GET /health
    call,        \* the SDK: one invocation of an ironclaw_tools function
    mock,        \* MockMcpServer: one handle_request call
    doc          \* update_feature_parity: one document being updated

vars ==
    <<pathExists, registry, pc, route, body, data, proc, resp, spawned,
      responses, health, call, mock, doc>>

\* The state of the programs beside the bridge.
otherVars == <<call, mock, doc>>

\* The state of the bridge.
bridgeVars ==
    <<pathExists, registry, pc, route, body, data, proc, resp, spawned,
      responses, health>>

reqVars == <<pc, route, body, data, proc, resp, spawned, responses>>

Unbound == [t |-> "unbound", s |-> <<>>, m |-> <<>>]

NoProc ==
    [state |-> "none", command |-> "", cwd |-> "", stdin |-> <<>>,
     stdinClosed |-> FALSE, rc |-> 0, out |-> <<>>, err |-> <<>>]

NoResp == [status |-> 0, text |-> <<>>]

\* The environment variables ironclaw_tools reads.
EnvNames ==
    {"IRONCLAW_ORCHESTRATOR_URL", "IRONCLAW_JOB_ID", "IRONCLAW_WORKER_TOKEN"}

\* os.environ without a variable, and with it.
Unset == [set |-> FALSE, val |-> <<>>]
SetTo(chars) == [set |-> TRUE, val |-> chars]

\* A timeout_secs argument: left out of the call, passed as None, or passed
\* as an integer.
Omitted == [is |-> "omitted", secs |-> 0]
NoneArg == [is |-> "None", secs |-> 0]
Secs(n) == [is |-> "int", secs |-> n]

NoResult == [kind |-> "none", exc |-> "", msg |-> <<>>, value |-> Unbound]

\* urlopen has not come back.
NoAnswer ==
    [kind |-> "none", reason |-> <<>>, code |-> 0, fp |-> FALSE,
     bytes |-> <<>>]

\* No SDK function has been called.
NoCall ==
    [pc |-> "idle", env |-> [v \in EnvNames |-> Unset], fn |-> "",
     args |-> <<>>, headers |-> Unbound, given |-> Omitted, name |-> <<>>,
     params |-> Unbound, timeout_secs |-> NoneArg, invocations |-> 0,
     sent |-> <<>>, answer |-> NoAnswer, result |-> NoResult]

\* MockMcpServer has been handed no request.
NoMock ==
    [pc |-> "idle", name |-> "", request |-> Unbound, raised |-> "",
     response |-> Unbound]

\* update_content has been handed no document.
NoDoc ==
    [pc |-> "idle", content |-> <<>>, sync_sha |-> <<>>, pr_number |-> <<>>,
     once |-> <<>>, twice |-> <<>>]

SemanticScholarPath == "~/semanticscholar-MCP-Server"

\* McpHttpWrapper.__init__
McpHttpWrapper(command, args, working_dir) ==
    [command |-> command, args |-> args, working_dir |-> working_dir]

\* main(): the two wrappers, built once.
BuildRegistry(exists) ==
    [rt \in Routes |->
        IF rt = "/semantic-scholar"
        THEN McpHttpWrapper("python", <<"semantic_scholar_server.py">>,
                            IF exists THEN SemanticScholarPath ELSE "")
        ELSE McpHttpWrapper("uv", <<"tool", "run", "arxiv-mcp-server">>, "")]

Init ==
    /\ pathExists \in BOOLEAN
    /\ registry = BuildRegistry(pathExists)
    /\ pc = [r \in Req |-> "idle"]
    /\ route = [r \in Req |-> ""]
    /\ body = [r \in Req |-> <<>>]
    /\ data = [r \in Req |-> Unbound]
    /\ proc = [r \in Req |-> NoProc]
    /\ resp = [r \in Req |-> NoResp]
    /\ spawned = [r \in Req |-> 0]
    /\ responses = [r \in Req |-> 0]
    /\ health = NoResp
    /\ call = NoCall
    /\ mock = NoMock
    /\ doc = NoDoc

\* The bridge at rest, for the specifications of the other programs.
BridgeAtRest ==
    /\ pathExists = TRUE
    /\ registry = BuildRegistry(pathExists)
    /\ pc = [r \in Req |-> "idle"]
    /\ route = [r \in Req |-> ""]
    /\ body = [r \in Req |-> <<>>]
    /\ data = [r \in Req |-> Unbound]
    /\ proc = [r \in Req |-> NoProc]
    /\ resp = [r \in Req |-> NoResp]
    /\ spawned = [r \in Req |-> 0]
    /\ responses = [r \in Req |-> 0]
    /\ health = NoResp

-----------------------------------------------------------------------------
(* Responses                                                               *)

\* web.json_response(data, status=status)
JsonResponse(value, status) == [status |-> status, text |-> JsonDumps(value)]

\* The error body of lines 46-53 and 65-72.
ErrorWithId(id, code, message) ==
    PyDict(<<Member(<<"jsonrpc">>, PyStr(<<"2.0">>)),
             Member(<<"id">>, id),
             Member(<<"error">>,
                    PyDict(<<Member(<<"code">>, PyInt(code)),
                             Member(<<"message">>, PyStr(message))>>))>>)

\* A bridge that reports what it catches as a parse error.
ExceptionResponseParse(message) ==
    JsonResponse(
        PyDict(<<Member(<<"jsonrpc">>, PyStr(<<"2.0">>)),
                 Member(<<"error">>,
                        PyDict(<<Member(<<"code">>, PyInt("-32700")),
                                 Member(<<"message">>, PyStr(message))>>))>>),
        500)

\* except Exception as e (lines 76-87): str(e) is the message, and the body
\* has no id member.
ExceptionResponse(message) ==
    JsonResponse(
        PyDict(<<Member(<<"jsonrpc">>, PyStr(<<"2.0">>)),
                 Member(<<"error">>,
                        PyDict(<<Member(<<"code">>, PyInt("-32603")),
                                 Member(<<"message">>, PyStr(message))>>))>>),
        500)

\* str(e) of the AttributeError that d.get raises when d is no dict.
NoGet(d) == <<"'", d.t, "' object has no attribute 'get'">>

\* await request.json(): the body decoded, then json.loads.
RequestJson(bytes) ==
    LET dec == Decode(bytes) IN
    IF ~dec.ok THEN Fail(dec.msg, 0) ELSE JsonLoads(dec.text)

\* json.dumps(data) + '\n'
RequestLine(d) == JsonDumps(d) \o <<NL>>

\* Lines 42-55: the process exited with a non-zero code.
ProcessFailed(d, p) ==
    LET dec == Decode(p.err) IN
    IF p.err # <<>> /\ ~dec.ok THEN ExceptionResponse(<<dec.msg>>)
    ELSE IF d.t # "dict" THEN ExceptionResponse(NoGet(d))
    ELSE JsonResponse(
            ErrorWithId(DictGet(d, <<"id">>), "-32603",
                        IF p.err # <<>> THEN dec.text ELSE <<"Process failed">>),
            500)

\* A bridge that re-validates the backend's JSON and rejects a document
\* without a result.
ParseResponseRevalidating(d, p) ==
    LET dec == Decode(p.out)
        parsed == JsonLoads(dec.text) IN
    IF ~dec.ok THEN ExceptionResponse(<<dec.msg>>)
    ELSE IF parsed.ok /\ HasKey(parsed.val, <<"result">>)
    THEN JsonResponse(parsed.val, 200)
    ELSE IF d.t # "dict" THEN ExceptionResponse(NoGet(d))
    ELSE JsonResponse(
            ErrorWithId(DictGet(d, <<"id">>), "-32700",
                        <<"Parse error: ", parsed.msg>>),
            500)

\* Lines 57-74: the process exited with code 0.
ParseResponse(d, p) ==
    LET dec == Decode(p.out)
        parsed == JsonLoads(dec.text) IN
    IF ~dec.ok THEN ExceptionResponse(<<dec.msg>>)
    ELSE IF parsed.ok THEN JsonResponse(parsed.val, 200)
    ELSE IF d.t # "dict" THEN ExceptionResponse(NoGet(d))
    ELSE JsonResponse(
            ErrorWithId(DictGet(d, <<"id">>), "-32700",
                        <<"Parse error: ", parsed.msg>>),
            500)

\* Lines 42-74: what handle_request returns once communicate() returned.
Classify(d, p) ==
    IF p.rc # 0 THEN ProcessFailed(d, p) ELSE ParseResponse(d, p)

\* str(e) of the OSError of a process that cannot be created.
SpawnError(w) == <<"[Errno 2] No such file or directory: ", w.command>>

-----------------------------------------------------------------------------
(* handle_request, one action per suspension point                         *)

Send(r, response) ==
    /\ resp' = [resp EXCEPT ![r] = response]
    /\ responses' = [responses EXCEPT ![r] = @ + 1]
    /\ pc' = [pc EXCEPT ![r] = "done"]

\* Lines 114-115: an HTTP POST is delivered to a backend route, whose
\* wrapper's handle_request starts.
Post(r, d) ==
    /\ pc[r] = "idle"
    /\ pc' = [pc EXCEPT ![r] = "json"]
    /\ route' = [route EXCEPT ![r] = d.route]
    /\ body' = [body EXCEPT ![r] = d.body]
    /\ UNCHANGED <<otherVars, pathExists, registry, data, proc, resp, spawned,
                   responses, health>>

\* Line 26: data = await request.json()
ReadJson(r) ==
    /\ pc[r] = "json"
    /\ LET parsed == RequestJson(body[r]) IN
       IF parsed.ok
       THEN /\ data' = [data EXCEPT ![r] = parsed.val]
            /\ pc' = [pc EXCEPT ![r] = "spawn"]
            /\ UNCHANGED <<resp, responses>>
       ELSE /\ Send(r, ExceptionResponse(<<parsed.msg>>))
            /\ UNCHANGED data
    /\ UNCHANGED <<otherVars, pathExists, registry, route, body, proc, spawned, health>>

\* A bridge that starts a second process beside the first.
SpawnTwice(r) ==
    /\ pc[r] = "spawn"
    /\ LET w == registry[route[r]] IN
       proc' = [proc EXCEPT ![r] =
                    [NoProc EXCEPT !.state = "running",
                                   !.command = w.command,
                                   !.cwd = w.working_dir]]
    /\ spawned' = [spawned EXCEPT ![r] = @ + 2]
    /\ pc' = [pc EXCEPT ![r] = "communicate"]
    /\ UNCHANGED <<otherVars, pathExists, registry, route, body, data, resp, responses,
                   health>>

\* Lines 29-36: proc = await asyncio.create_subprocess_exec(...)
Spawn(r) ==
    /\ pc[r] = "spawn"
    /\ LET w == registry[route[r]] IN
       proc' = [proc EXCEPT ![r] =
                    [NoProc EXCEPT !.state = "running",
                                   !.command = w.command,
                                   !.cwd = w.working_dir]]
    /\ spawned' = [spawned EXCEPT ![r] = @ + 1]
    /\ pc' = [pc EXCEPT ![r] = "communicate"]
    /\ UNCHANGED <<otherVars, pathExists, registry, route, body, data, resp, responses,
                   health>>

\* Lines 29-36 raising: the process cannot be created.
SpawnFails(r) ==
    /\ pc[r] = "spawn"
    /\ proc' = [proc EXCEPT ![r] = [NoProc EXCEPT !.state = "failed"]]
    /\ Send(r, ExceptionResponse(SpawnError(registry[route[r]])))
    /\ UNCHANGED <<otherVars, pathExists, registry, route, body, data, spawned, health>>

\* A bridge that writes the request and leaves the process's stdin open.
CommunicateLeavesOpen(r) ==
    /\ pc[r] = "communicate"
    /\ proc' = [proc EXCEPT ![r] =
                    [@ EXCEPT !.stdin = @ \o RequestLine(data[r])]]
    /\ pc' = [pc EXCEPT ![r] = "wait"]
    /\ UNCHANGED <<otherVars, pathExists, registry, route, body, data, resp,
                   spawned, responses, health>>

\* Lines 39-40: communicate() writes the request line to the process's
\* stdin and closes it.
Communicate(r) ==
    /\ pc[r] = "communicate"
    /\ proc' = [proc EXCEPT ![r] =
                    [@ EXCEPT !.stdin = @ \o RequestLine(data[r]),
                              !.stdinClosed = TRUE]]
    /\ pc' = [pc EXCEPT ![r] = "wait"]
    /\ UNCHANGED <<otherVars, pathExists, registry, route, body, data, resp, spawned,
                   responses, health>>

\* The backend process of request r terminates, having read its input to
\* the end.
ProcExit(r, o) ==
    /\ proc[r].state = "running"
    /\ proc[r].stdinClosed
    /\ proc' = [proc EXCEPT ![r] =
                    [@ EXCEPT !.state = "exited", !.rc = o.rc, !.out = o.out,
                              !.err = o.err]]
    /\ UNCHANGED <<otherVars, pathExists, registry, pc, route, body, data, resp, spawned,
                   responses, health>>

\* A bridge that stops waiting once the request is written.
CommunicateTimesOut(r) == proc[r].state \in {"running", "exited"}

\* Line 40: communicate() returns only when the process has terminated.
CommunicateReturns(r) == proc[r].state = "exited"

\* A wrapper that keeps `data` on itself, where the requests share it.
FinishShared(r) ==
    /\ pc[r] = "wait"
    /\ proc[r].state = "exited"
    /\ Send(r, Classify(data[CHOOSE q \in Req : data[q] # Unbound], proc[r]))
    /\ UNCHANGED <<otherVars, pathExists, registry, route, body, data, proc, spawned,
                   health>>

\* A bridge that numbers its answers itself instead of echoing the id.
FinishOwnIds(r) ==
    /\ pc[r] = "wait"
    /\ proc[r].state = "exited"
    /\ Send(r, Classify(PyDict(<<Member(<<"id">>, PyInt(ToString(r)))>>),
                        proc[r]))
    /\ UNCHANGED <<otherVars, pathExists, registry, route, body, data, proc, spawned,
                   health>>

\* A bridge that waits for its processes one at a time, the way a blocking
\* subprocess call would: no answer while another request's process runs.
FinishBlocking(r) ==
    /\ pc[r] = "wait"
    /\ CommunicateReturns(r)
    /\ \A q \in Req \ {r} : proc[q].state # "running"
    /\ Send(r, Classify(data[r], proc[r]))
    /\ UNCHANGED <<otherVars, pathExists, registry, route, body, data, proc,
                   spawned, health>>

\* Lines 40-74: communicate() returns and the outcome is answered.
Finish(r) ==
    /\ pc[r] = "wait"
    /\ CommunicateReturns(r)
    /\ Send(r, Classify(data[r], proc[r]))
    /\ UNCHANGED <<otherVars, pathExists, registry, route, body, data, proc, spawned,
                   health>>

-----------------------------------------------------------------------------
(* GET /health                                                             *)

\* A probe that reports what main() found at startup.
HealthBodyStale(exists) ==
    PyDict(<<Member(<<"status">>, PyStr(<<"ok">>)),
             Member(<<"servers">>,
                    PyDict(<<Member(<<"semantic_scholar">>,
                                    PyBool(registry["/semantic-scholar"].working_dir # "")),
                             Member(<<"arxiv">>, PyBool(TRUE))>>))>>)

\* Lines 119-125: the body of the health answer.
HealthBody(exists) ==
    PyDict(<<Member(<<"status">>, PyStr(<<"ok">>)),
             Member(<<"servers">>,
                    PyDict(<<Member(<<"semantic_scholar">>, PyBool(exists)),
                             Member(<<"arxiv">>, PyBool(TRUE))>>))>>)

\* Lines 118-127: GET /health.
Health ==
    /\ health' = JsonResponse(HealthBody(pathExists), 200)
    /\ UNCHANGED <<otherVars, pathExists, registry, reqVars>>

\* The directory is created or removed behind the server's back.
PathChanges ==
    /\ pathExists' = ~pathExists
    /\ UNCHANGED <<otherVars, registry, reqVars, health>>

-----------------------------------------------------------------------------
(* Specifications                                                          *)

Handle(r, posts, outcomes) ==
    \/ \E d \in posts : Post(r, d)
    \/ ReadJson(r)
    \/ Spawn(r)
    \/ SpawnFails(r)
    \/ Communicate(r)
    \/ \E o \in outcomes : ProcExit(r, o)
    \/ Finish(r)

Next == \E r \in Req : Handle(r, Posts, Outcomes)

\* The bridge: POST requests only.
Spec == Init /\ [][Next]_vars

NextFront ==
    \/ \E r \in Req : Handle(r, FrontPosts, FrontOutcomes)
    \/ Health
    \/ PathChanges

\* The bridge behind its HTTP front, GET /health included.
SpecFront == Init /\ [][NextFront]_vars

NextFair == \E r \in Req : Handle(r, FairPosts, FairOutcomes)

\* Lines 23-40, 112-133: the event loop runs every handler that can take a
\* step; it promises nothing about clients or about backend processes.
Fairness ==
    \A r \in Req :
        WF_vars(ReadJson(r) \/ Spawn(r) \/ SpawnFails(r) \/ Communicate(r)
                    \/ Finish(r))

\* The bridge on its event loop.
SpecFair == Init /\ [][NextFair]_vars /\ Fairness

-----------------------------------------------------------------------------
(* What the claims speak of                                                *)

Done(r) == pc[r] = "done"
Exited(r) == proc[r].state = "exited"
\* The inbound body as JSON.
Inbound(r) == RequestJson(body[r])
\* The response body as the HTTP client parses it.
Reply(r) == JsonLoads(resp[r].text).val
IdOf(v) == DictGet(v, <<"id">>)
CodeOf(v) == DictGet(DictGet(v, <<"error">>), <<"code">>)
MessageOf(v) == DictGet(DictGet(v, <<"error">>), <<"message">>)
ParsesAsJson(bytes) == Decode(bytes).ok /\ JsonLoads(Decode(bytes).text).ok
Includes(chars, c) == \E i \in 1..Len(chars) : chars[i] = c

-----------------------------------------------------------------------------
\* C1: a request whose backend process exited with code 0 and wrote JSON to
\* its standard output is answered HTTP 200 with exactly that JSON value as
\* the body, whatever the value's shape and whatever the inbound body was.
C1_SuccessVerbatim ==
    \A r \in Req :
        (Done(r) /\ Exited(r) /\ proc[r].rc = 0 /\ ParsesAsJson(proc[r].out))
        => /\ resp[r].status = 200
           /\ JsonLoads(resp[r].text).ok
           /\ Reply(r) = JsonLoads(proc[r].out).val

\* A JSON-RPC error object without id or result came back for a request
\* whose body was no JSON object, and was passed on with 200.
C1_Witness ==
    \E r \in Req :
        /\ Done(r) /\ Exited(r) /\ proc[r].rc = 0
        /\ proc[r].out = OutError /\ body[r] = BodyList
        /\ resp[r].status = 200
        /\ ~HasKey(Reply(r), <<"id">>) /\ HasKey(Reply(r), <<"error">>)

\* C2: a request whose body parses as JSON and whose backend process exited
\* with a non-zero code is answered HTTP 500 with code -32603, the stderr
\* text (or "Process failed" when stderr is empty) as message, and the
\* inbound id when there is one.
C2_ProcessFailure ==
    \A r \in Req :
        (Done(r) /\ Inbound(r).ok /\ Exited(r) /\ proc[r].rc # 0)
        => /\ resp[r].status = 500
           /\ CodeOf(Reply(r)) = PyInt("-32603")
           /\ MessageOf(Reply(r)) =
                PyStr(IF proc[r].err = <<>> THEN <<"Process failed">>
                      ELSE Decode(proc[r].err).text)
           /\ HasKey(Inbound(r).val, <<"id">>)
                => IdOf(Reply(r)) = IdOf(Inbound(r).val)

\* C3: a request whose body parses as JSON and whose backend process exited
\* with code 0 without JSON on its standard output is answered HTTP 500
\* with code -32700, a message that includes the parser's description, and
\* the inbound id.
C3_OutputParseFailure ==
    \A r \in Req :
        (Done(r) /\ Inbound(r).ok /\ Exited(r) /\ proc[r].rc = 0
            /\ ~ParsesAsJson(proc[r].out))
        => /\ resp[r].status = 500
           /\ CodeOf(Reply(r)) = PyInt("-32700")
           /\ MessageOf(Reply(r)).t = "str"
           /\ Decode(proc[r].out).ok
                => Includes(MessageOf(Reply(r)).s, JsonLoads(proc[r].out).msg)
           /\ IdOf(Reply(r)) = IdOf(Inbound(r).val)

\* C4 as claimed: every handled POST, whatever its body, has spawned exactly
\* one process and produced exactly one response.
C4_ExactlyOneProcess ==
    \A r \in Req : Done(r) => spawned[r] = 1 /\ responses[r] = 1

\* C4 as amended: a POST spawns at most one process and is sent at most one
\* response; once handled it has been sent exactly one response and has
\* spawned exactly one process when its body parsed as JSON and the process
\* could be created, and none otherwise.
C4_AtMostOneProcess ==
    \A r \in Req :
        /\ spawned[r] <= 1
        /\ responses[r] <= 1
        /\ responses[r] = 1 <=> Done(r)
        /\ Done(r) =>
             spawned[r] =
                IF Inbound(r).ok /\ proc[r].state # "failed" THEN 1 ELSE 0

\* Handled requests of all three kinds: a body that is no JSON (no
\* process), a process that could not be created (no process), and a
\* process that ran (one process).
C4_Witness ==
    /\ \E r \in Req : Done(r) /\ ~Inbound(r).ok /\ spawned[r] = 0
    /\ \E r \in Req :
         Done(r) /\ Inbound(r).ok /\ spawned[r] = 1 /\ responses[r] = 1

\* C5: every error the bridge makes up itself carries the inbound id when
\* the inbound body parsed as JSON, and no id (or null) when it did not.
C5_ErrorsEchoId ==
    \A r \in Req :
        (Done(r) /\ resp[r].status = 500
            /\ CodeOf(Reply(r)) \in {PyInt("-32603"), PyInt("-32700")})
        => IdOf(Reply(r)) =
             IF Inbound(r).ok THEN IdOf(Inbound(r).val) ELSE PyNone

\* C6: a body that does not parse as JSON, and a process that cannot be
\* created, are each answered HTTP 500 with code -32603 (never -32700) and
\* the caught exception's description as message.
C6_EarlyFailuresInternal ==
    \A r \in Req :
        /\ (Done(r) /\ ~Inbound(r).ok)
           => /\ resp[r].status = 500
              /\ CodeOf(Reply(r)) = PyInt("-32603")
              /\ MessageOf(Reply(r)) = PyStr(<<Inbound(r).msg>>)
        /\ (Done(r) /\ proc[r].state = "failed")
           => /\ resp[r].status = 500
              /\ CodeOf(Reply(r)) = PyInt("-32603")
              /\ MessageOf(Reply(r)) = PyStr(SpawnError(registry[route[r]]))

\* A cut-short body and a failed process creation, both answered.
C6_Witness ==
    /\ \E r \in Req :
         Done(r) /\ body[r] = BodyCut /\ spawned[r] = 0
         /\ MessageOf(Reply(r)) = PyStr(<<"Expecting ',' delimiter">>)
    /\ \E r \in Req : Done(r) /\ proc[r].state = "failed"

\* The response, the process and the request line of r come from r's own
\* body and r's own process.
C7_OwnInputsOnly ==
    \A r \in Req :
        /\ data[r] # Unbound => data[r] = Inbound(r).val
        /\ proc[r].state \in {"running", "exited"}
           => /\ proc[r].command = registry[route[r]].command
              /\ proc[r].cwd = registry[route[r]].working_dir
              /\ proc[r].stdinClosed
                   => proc[r].stdin = RequestLine(Inbound(r).val)
        /\ (Done(r) /\ Exited(r))
           => resp[r] = Classify(Inbound(r).val, proc[r])
        /\ (Done(r) /\ ~Inbound(r).ok)
           => resp[r] = ExceptionResponse(<<Inbound(r).msg>>)

\* C7: under every interleaving of the requests, each response is a function
\* of the request's own body and its own process's outcome, and no step
\* changes the backend descriptors.
C7_Isolation == [](C7_OwnInputsOnly) /\ [][registry' = registry]_vars

\* Two requests with different bodies, one answered from its process's
\* outcome while the other's process, with another outcome, has exited and
\* is not yet answered.
C7_Witness ==
    \E r, q \in Req :
        /\ Done(r) /\ Exited(r) /\ pc[q] = "wait" /\ Exited(q)
        /\ IdOf(Inbound(r).val) # IdOf(Inbound(q).val)
        /\ proc[r].rc # proc[q].rc
        /\ proc[r].rc = 1

\* C8: no request is answered while its backend process is still running;
\* so a request whose process never exits is never answered.
C8_NoAnswerBeforeExit ==
    \A r \in Req :
        proc[r].state = "running"
        => resp[r] = NoResp /\ responses[r] = 0 /\ ~Done(r)

\* One request answered after its process exited, while another waits on a
\* process that is still running.
C8_Witness ==
    \E r, q \in Req :
        /\ Done(r) /\ Exited(r) /\ resp[r] # NoResp
        /\ pc[q] = "wait" /\ proc[q].state = "running" /\ resp[q] = NoResp

C10_HealthShape ==
    health # NoResp
    => LET v == JsonLoads(health.text).val
           servers == DictGet(v, <<"servers">>) IN
       /\ health.status = 200
       /\ DictGet(v, <<"status">>) = PyStr(<<"ok">>)
       /\ servers.t = "dict"
       /\ Len(servers.m) = Cardinality(Routes)
       /\ \A i \in 1..Len(servers.m) : servers.m[i].v.t = "bool"

\* C10: GET /health can be answered in every state; its answer has the
\* shape above, reports for semantic_scholar whether the directory exists
\* when it is asked, whatever the requests have done, and answering it
\* spawns no process and touches no request.
C10_Health ==
    /\ [](ENABLED Health /\ C10_HealthShape)
    /\ [][health' # health
            => /\ DictGet(DictGet(JsonLoads(health'.text).val, <<"servers">>),
                          <<"semantic_scholar">>) = PyBool(pathExists)
               /\ DictGet(DictGet(JsonLoads(health'.text).val, <<"servers">>),
                          <<"arxiv">>) = PyBool(TRUE)
               /\ reqVars' = reqVars]_vars

\* /health answered "false" by a server that started with the directory in
\* place, with one request answered and another in flight.
C10_Witness ==
    /\ health = JsonResponse(HealthBody(FALSE), 200)
    /\ registry["/semantic-scholar"].working_dir # ""
    /\ \E r, q \in Req : Done(r) /\ spawned[r] = 1 /\ pc[q] = "wait"

-----------------------------------------------------------------------------
(* sdk/python/ironclaw_tools.py                                            *)

MaxToolTimeout == 300
DefaultTimeout == 60
TimeoutSlack == 5
ShellTimeout == 60
HttpGetTimeout == 30

\* How a Python call ends: with a value, or with an exception.
Returned(v) == [kind |-> "returned", exc |-> "", msg |-> <<>>, value |-> v]
Raised(exc, msg) ==
    [kind |-> "raised", exc |-> exc, msg |-> msg, value |-> Unbound]

\* bool(v)
Truthy(v) ==
    CASE v.t = "NoneType" -> FALSE
      [] v.t = "bool" -> v.s = <<"true">>
      [] v.t = "int" -> v.s # <<"0">>
      [] v.t = "str" -> v.s # <<>>
      [] v.t \in {"list", "dict"} -> v.m # <<>>

\* str(v) of a scalar, as an f-string formats it.
PyStrOf(v) ==
    CASE v.t = "NoneType" -> <<"None">>
      [] v.t = "bool" -> <<IF v.s = <<"true">> THEN "True" ELSE "False">>
      [] v.t = "int" -> v.s
      [] v.t = "str" -> v.s

\* chars.rstrip(c)
RECURSIVE RStrip(_, _)
RStrip(chars, c) ==
    IF chars # <<>> /\ chars[Len(chars)] = c
    THEN RStrip(SubSeq(chars, 1, Len(chars) - 1), c)
    ELSE chars

\* bytes.decode("utf-8", errors="replace")
DecodeReplace(bytes) ==
    [i \in 1..Len(bytes) |-> IF bytes[i] = BadByte THEN "\\ufffd" ELSE bytes[i]]

\* An _env that falls back to the empty string, as os.environ.get(name, "")
\* would.
EnvLenient(env, name) == Returned(PyStr(env[name].val))

\* Lines 30-38: _env(name)
Env(env, name) ==
    LET value == env[name] IN
    IF ~value.set \/ value.val = <<>>
    THEN Raised("RuntimeError",
                <<"Missing required environment variable: ", name, ". ",
                  "This SDK must be run inside an IronClaw container.">>)
    ELSE Returned(PyStr(value.val))

\* A _base_url that keeps the slashes the configured URL ends with.
BaseUrlUnstripped(env) ==
    LET orchestrator == Env(env, "IRONCLAW_ORCHESTRATOR_URL")
        job_id == Env(env, "IRONCLAW_JOB_ID") IN
    IF orchestrator.kind = "raised" THEN orchestrator
    ELSE IF job_id.kind = "raised" THEN job_id
    ELSE Returned(PyStr(orchestrator.value.s \o <<"/worker/">>
                            \o job_id.value.s))

\* Lines 41-45: _base_url()
BaseUrl(env) ==
    LET orchestrator == Env(env, "IRONCLAW_ORCHESTRATOR_URL")
        job_id == Env(env, "IRONCLAW_JOB_ID") IN
    IF orchestrator.kind = "raised" THEN orchestrator
    ELSE IF job_id.kind = "raised" THEN job_id
    ELSE Returned(PyStr(RStrip(orchestrator.value.s, "/") \o <<"/worker/">>
                            \o job_id.value.s))

\* Lines 48-50: _token()
Token(env) == Env(env, "IRONCLAW_WORKER_TOKEN")

Min(a, b) == IF a <= b THEN a ELSE b

\* A body that passes the caller's timeout on as it is.
ToolBodyUnclamped(name, params, timeout_secs) ==
    PyDict(<<Member(<<"tool_name">>, PyStr(name)),
             Member(<<"parameters">>,
                    IF Truthy(params) THEN params ELSE PyDict(<<>>))>>
           \o IF timeout_secs.is # "None"
              THEN <<Member(<<"timeout_secs">>,
                            PyInt(ToString(timeout_secs.secs)))>>
              ELSE <<>>)

\* Lines 68-73: the body of the request.
ToolBody(name, params, timeout_secs) ==
    PyDict(<<Member(<<"tool_name">>, PyStr(name)),
             Member(<<"parameters">>,
                    IF Truthy(params) THEN params ELSE PyDict(<<>>))>>
           \o IF timeout_secs.is # "None"
              THEN <<Member(<<"timeout_secs">>,
                            PyInt(ToString(Min(timeout_secs.secs,
                                               MaxToolTimeout))))>>
              ELSE <<>>)

\* data.encode("utf-8") of what json.dumps wrote: json.dumps escapes every
\* character outside ASCII, so each character is one byte.
Encode(text) == text

\* Line 87: the timeout handed to urlopen, (timeout_secs or 60) + 5.
TransportTimeout(timeout_secs) ==
    (IF timeout_secs.is = "None" \/ timeout_secs.secs = 0
     THEN DefaultTimeout ELSE timeout_secs.secs) + TimeoutSlack

NoRequest ==
    [url |-> <<>>, method |-> "", headers |-> <<>>, data |-> <<>>,
     timeout |-> 0]

\* Lines 67-87: the request that call_tool hands to urlopen, or the
\* exception raised while building it.
ToolRequest(env, name, params, timeout_secs) ==
    LET base == BaseUrl(env)
        token == Token(env) IN
    IF base.kind = "raised" THEN [error |-> base, req |-> NoRequest]
    ELSE IF token.kind = "raised" THEN [error |-> token, req |-> NoRequest]
    ELSE [error |-> NoResult,
          req |-> [url |-> base.value.s \o <<"/tools/call">>,
                   method |-> "POST",
                   headers |->
                     <<Member(<<"Content-Type">>,
                              PyStr(<<"application/json">>)),
                       Member(<<"Authorization">>,
                              PyStr(<<"Bearer ">> \o token.value.s))>>,
                   data |-> Encode(JsonDumps(ToolBody(name, params,
                                                      timeout_secs))),
                   timeout |-> TransportTimeout(timeout_secs)]]

\* What urlopen may come back with.
URLError(reason) ==
    [kind |-> "URLError", reason |-> reason, code |-> 0, fp |-> FALSE,
     bytes |-> <<>>]
HTTPError(code, fp, bytes) ==
    [kind |-> "HTTPError", reason |-> <<>>, code |-> code, fp |-> fp,
     bytes |-> bytes]
HttpOk(bytes) ==
    [kind |-> "response", reason |-> <<>>, code |-> 200, fp |-> TRUE,
     bytes |-> bytes]

\* A call_tool that hands back the output whatever the success flag says.
ReadReplyIgnoringSuccess(name, bytes) ==
    LET result == JsonLoads(Decode(bytes).text) IN
    IF ~Decode(bytes).ok \/ ~result.ok \/ result.val.t # "dict"
    THEN Raised("ValueError", <<>>)
    ELSE Returned(IF HasKey(result.val, <<"output">>)
                  THEN DictGet(result.val, <<"output">>)
                  ELSE PyStr(<<>>))

\* Lines 88, 97-100: what call_tool makes of the body of a response.
ReadReply(name, bytes) ==
    LET text == Decode(bytes) IN
    IF ~text.ok THEN Raised("UnicodeDecodeError", <<text.msg>>)
    ELSE LET result == JsonLoads(text.text) IN
    IF ~result.ok THEN Raised("JSONDecodeError", <<result.msg>>)
    ELSE IF result.val.t # "dict"
    THEN Raised("AttributeError",
                <<"'", result.val.t, "' object has no attribute 'get'">>)
    ELSE IF ~Truthy(DictGet(result.val, <<"success">>))
    THEN Raised("RuntimeError",
                <<"Tool '">> \o name \o <<"' failed: ">>
                  \o IF HasKey(result.val, <<"error">>)
                     THEN PyStrOf(DictGet(result.val, <<"error">>))
                     ELSE <<"unknown error">>)
    ELSE Returned(IF HasKey(result.val, <<"output">>)
                  THEN DictGet(result.val, <<"output">>)
                  ELSE PyStr(<<>>))

\* Lines 86-100: what call_tool makes of the round trip.
ToolResult(name, answer) ==
    IF answer.kind = "HTTPError"
    THEN Raised("RuntimeError",
                <<"Tool call failed: HTTP ", ToString(answer.code), ": ">>
                  \o IF answer.fp THEN DecodeReplace(answer.bytes) ELSE <<>>)
    ELSE IF answer.kind = "URLError"
    THEN Raised("RuntimeError",
                <<"Connection to orchestrator failed: ">> \o answer.reason)
    ELSE ReadReply(name, answer.bytes)

\* A parameter's value: the argument, or the default of the signature.
Default(arg, dflt) == IF arg.is = "omitted" THEN dflt ELSE arg

\* The arguments of one call_tool(name, params, timeout_secs=...) call.
ToolCall(name, params, timeout_secs) ==
    [name |-> name, params |-> params, timeout_secs |-> timeout_secs]

\* A shell() whose timeout has no default of its own.
ShellCallUntimed(command, t) ==
    ToolCall(<<"shell">>, PyDict(<<Member(<<"command">>, PyStr(command))>>),
             Default(t, NoneArg))

\* Lines 103-113: shell(command, timeout_secs=60)
ShellCall(command, t) ==
    ToolCall(<<"shell">>, PyDict(<<Member(<<"command">>, PyStr(command))>>),
             Default(t, Secs(ShellTimeout)))

\* Lines 116-125: read_file(path)
ReadFileCall(path) ==
    ToolCall(<<"read_file">>, PyDict(<<Member(<<"path">>, PyStr(path))>>),
             NoneArg)

\* Lines 128-138: write_file(path, content)
WriteFileCall(path, content) ==
    ToolCall(<<"write_file">>,
             PyDict(<<Member(<<"path">>, PyStr(path)),
                      Member(<<"content">>, PyStr(content))>>),
             NoneArg)

\* Lines 141-155: http_get(url, headers=None, timeout_secs=30)
HttpGetCall(url, headers, t) ==
    ToolCall(<<"http">>,
             PyDict(<<Member(<<"url">>, PyStr(url)),
                      Member(<<"method">>, PyStr(<<"GET">>))>>
                    \o IF Truthy(headers)
                       THEN <<Member(<<"headers">>, headers)>> ELSE <<>>),
             Default(t, Secs(HttpGetTimeout)))

\* The environments a script may run in: each variable unset, empty or set.
OrchestratorUrls ==
    { <<"http://orchestrator:50051">>, <<"http://orchestrator:50051", "/">> }
EnvChoices(v) ==
    {Unset, SetTo(<<>>)}
      \cup CASE v = "IRONCLAW_ORCHESTRATOR_URL" ->
                    {SetTo(u) : u \in OrchestratorUrls}
             [] v = "IRONCLAW_JOB_ID" -> {SetTo(<<"job-7">>)}
             [] v = "IRONCLAW_WORKER_TOKEN" -> {SetTo(<<"secret">>)}
Envs ==
    {e \in [EnvNames -> UNION {EnvChoices(v) : v \in EnvNames}] :
        \A v \in EnvNames : e[v] \in EnvChoices(v)}

\* The arguments scripts pass.
TimeoutValues == {-1, 0, 30, 300, 301, 500}
TimeoutArgs == {Omitted, NoneArg} \cup {Secs(n) : n \in TimeoutValues}
ParamArgs ==
    { PyNone, PyDict(<<>>),
      PyDict(<<Member(<<"message">>, PyStr(<<"hi">>))>>) }
HeaderArgs ==
    { PyNone, PyDict(<<>>),
      PyDict(<<Member(<<"Accept">>, PyStr(<<"text/plain">>))>>) }

\* What the orchestrator, or the network, answers.
Answers ==
    { URLError(<<"[Errno 111] Connection refused">>),
      URLError(<<"timed out">>),
      HTTPError(500, FALSE, <<>>),
      HTTPError(404, TRUE, <<"no such job">>),
      HTTPError(502, TRUE, <<BadByte>>),
      HttpOk(JsonDumps(PyDict(<<Member(<<"success">>, PyBool(TRUE)),
                                Member(<<"output">>, PyStr(<<"hello">>))>>))),
      HttpOk(JsonDumps(PyDict(<<Member(<<"success">>, PyBool(TRUE))>>))),
      HttpOk(JsonDumps(PyDict(<<Member(<<"success">>, PyBool(FALSE)),
                                Member(<<"error">>, PyStr(<<"denied">>)),
                                Member(<<"output">>, PyStr(<<"partial">>))>>))),
      HttpOk(JsonDumps(PyDict(<<Member(<<"success">>, PyBool(FALSE))>>))),
      HttpOk(JsonDumps(PyDict(<<Member(<<"output">>, PyStr(<<"hello">>))>>))),
      HttpOk(<<"<html>">>),
      HttpOk(<<"[", "1", "]">>),
      HttpOk(<<BadByte>>) }

\* The SDK once a script has called function fn, which calls call_tool
\* with the arguments tc.
Invoked(fn, args, headers, t, tc) ==
    [call EXCEPT !.fn = fn, !.args = args, !.headers = headers, !.given = t,
                 !.name = tc.name, !.params = tc.params,
                 !.timeout_secs = tc.timeout_secs, !.invocations = @ + 1,
                 !.pc = "prepare"]

\* Lines 53-57: call_tool(name, params=None, timeout_secs=None)
CallTool(name, params, t) ==
    /\ call.pc = "idle"
    /\ call' = Invoked("call_tool", <<name>>, params, t,
                       ToolCall(name, params, Default(t, NoneArg)))
    /\ UNCHANGED <<bridgeVars, mock, doc>>

Shell(command, t) ==
    /\ call.pc = "idle"
    /\ call' = Invoked("shell", <<command>>, PyNone, t, ShellCall(command, t))
    /\ UNCHANGED <<bridgeVars, mock, doc>>

ReadFile(path) ==
    /\ call.pc = "idle"
    /\ call' = Invoked("read_file", <<path>>, PyNone, Omitted,
                       ReadFileCall(path))
    /\ UNCHANGED <<bridgeVars, mock, doc>>

WriteFile(path, content) ==
    /\ call.pc = "idle"
    /\ call' = Invoked("write_file", <<path, content>>, PyNone, Omitted,
                       WriteFileCall(path, content))
    /\ UNCHANGED <<bridgeVars, mock, doc>>

HttpGet(url, headers, t) ==
    /\ call.pc = "idle"
    /\ call' = Invoked("http_get", <<url>>, headers, t,
                       HttpGetCall(url, headers, t))
    /\ UNCHANGED <<bridgeVars, mock, doc>>

\* Lines 67-87: the request is built and handed to urlopen, unless building
\* it raises.
UrlOpen ==
    /\ call.pc = "prepare"
    /\ LET built == ToolRequest(call.env, call.name, call.params,
                                call.timeout_secs) IN
       IF built.error.kind = "raised"
       THEN call' = [call EXCEPT !.pc = "done", !.result = built.error]
       ELSE call' = [call EXCEPT !.pc = "sent",
                                 !.sent = Append(@, built.req)]
    /\ UNCHANGED <<bridgeVars, mock, doc>>

\* A call_tool that tries once more when the connection fails.
AnswerRetrying(a) ==
    /\ call.pc = "sent"
    /\ call' = IF a.kind = "URLError" /\ Len(call.sent) < 2
               THEN [call EXCEPT !.pc = "prepare", !.answer = a]
               ELSE [call EXCEPT !.pc = "done", !.answer = a,
                                 !.result = ToolResult(call.name, a)]
    /\ UNCHANGED <<bridgeVars, mock, doc>>

\* Lines 87-100: urlopen comes back and call_tool returns or raises.
Answer(a) ==
    /\ call.pc = "sent"
    /\ call' = [call EXCEPT !.pc = "done", !.answer = a,
                            !.result = ToolResult(call.name, a)]
    /\ UNCHANGED <<bridgeVars, mock, doc>>

InitSdk ==
    /\ BridgeAtRest
    /\ call \in {[NoCall EXCEPT !.env = e] : e \in Envs}
    /\ mock = NoMock
    /\ doc = NoDoc

NextSdk ==
    \/ \E p \in ParamArgs, t \in TimeoutArgs : CallTool(<<"echo">>, p, t)
    \/ \E t \in TimeoutArgs : Shell(<<"ls -la">>, t)
    \/ ReadFile(<<"/tmp/notes.txt">>)
    \/ WriteFile(<<"/tmp/notes.txt">>, <<"line", NL>>)
    \/ \E h \in HeaderArgs, t \in TimeoutArgs :
            HttpGet(<<"https://example.com">>, h, t)
    \/ UrlOpen
    \/ \E a \in Answers : Answer(a)

\* A script that calls the SDK once.
SpecSdk == InitSdk /\ [][NextSdk]_vars

-----------------------------------------------------------------------------
(* What the SDK claims speak of                                            *)

\* call_tool has run to its end.
CallDone == call.pc = "done"
\* The environment lacks variable v: it is unset, or set to nothing.
Missing(v) == ~call.env[v].set \/ call.env[v].val = <<>>
\* The request that went out, and its body as the orchestrator parses it.
SentRequest == call.sent[1]
SentBody == JsonLoads(SentRequest.data).val

\* C11: whenever at least one of IRONCLAW_ORCHESTRATOR_URL, IRONCLAW_JOB_ID
\* and IRONCLAW_WORKER_TOKEN is unset, no request is ever handed to the
\* network, and once call_tool has built (or failed to build) its request it
\* has raised an error whose message names a variable the environment lacks.
C11_MissingEnvRaisesFirst ==
    (\E v \in EnvNames : ~call.env[v].set) =>
        /\ call.sent = <<>>
        /\ call.pc \in {"idle", "prepare", "done"}
        /\ CallDone =>
              /\ call.result.kind = "raised"
              /\ \E v \in EnvNames : Missing(v) /\ Includes(call.result.msg, v)

\* Only the token is unset, the variable call_tool reads last, and the call
\* has raised naming it.
C11_Witness ==
    /\ CallDone
    /\ call.env["IRONCLAW_ORCHESTRATOR_URL"].val # <<>>
    /\ call.env["IRONCLAW_JOB_ID"].val # <<>>
    /\ ~call.env["IRONCLAW_WORKER_TOKEN"].set
    /\ call.timeout_secs.is = "int"
    /\ call.result.kind = "raised"
    /\ Includes(call.result.msg, "IRONCLAW_WORKER_TOKEN")

\* C12: a request that went out carries, when call_tool was given an integer
\* timeout_secs, the field timeout_secs equal to the smaller of that integer
\* and 300, and carries no timeout_secs field when call_tool was given none.
C12_TimeoutClamped ==
    call.sent # <<>> =>
        IF call.timeout_secs.is = "int"
        THEN /\ HasKey(SentBody, <<"timeout_secs">>)
             /\ DictGet(SentBody, <<"timeout_secs">>) =
                    PyInt(ToString(IF call.timeout_secs.secs <= 300
                                   THEN call.timeout_secs.secs ELSE 300))
        ELSE /\ SentBody.t = "dict"
             /\ ~HasKey(SentBody, <<"timeout_secs">>)

\* A request went out for a call given 500 seconds, and carries 300.
C12_Witness ==
    /\ call.sent # <<>>
    /\ call.timeout_secs = Secs(500)
    /\ DictGet(SentBody, <<"timeout_secs">>) = PyInt("300")

\* chars ends with tail; chars holds part as a run of consecutive characters.
EndsWith(chars, tail) ==
    /\ Len(tail) <= Len(chars)
    /\ SubSeq(chars, Len(chars) - Len(tail) + 1, Len(chars)) = tail
Holds(chars, part) ==
    \E i \in 0..(Len(chars) - Len(part)) :
        SubSeq(chars, i + 1, i + Len(part)) = part

\* The answer's body as a client parses it, when it is a JSON object.
AnswerJson == JsonLoads(call.answer.bytes).val
AnswerSays(b) ==
    /\ call.answer.kind = "response"
    /\ ParsesAsJson(call.answer.bytes)
    /\ DictGet(AnswerJson, <<"success">>) = PyBool(b)

\* C13: once the round trip is over, a transport failure has raised an error
\* ending in the failure's reason; an HTTP error status has raised an error
\* holding the status code and ending in the body text; a response saying
\* success false has raised an error holding the tool's name and ending in
\* the server's error text, or in a default text when there is none; a
\* response saying success true has returned its output field; and nothing
\* but a response saying success true has returned a value.
C13_OutcomeClassified ==
    (CallDone /\ call.sent # <<>>) =>
        /\ call.answer.kind = "URLError" =>
              /\ call.result.kind = "raised"
              /\ EndsWith(call.result.msg, call.answer.reason)
        /\ call.answer.kind = "HTTPError" =>
              /\ call.result.kind = "raised"
              /\ Includes(call.result.msg, ToString(call.answer.code))
              /\ EndsWith(call.result.msg,
                          IF call.answer.fp
                          THEN DecodeReplace(call.answer.bytes) ELSE <<>>)
        /\ AnswerSays(FALSE) =>
              /\ call.result.kind = "raised"
              /\ Holds(call.result.msg, call.name)
              /\ IF HasKey(AnswerJson, <<"error">>)
                 THEN EndsWith(call.result.msg,
                               DictGet(AnswerJson, <<"error">>).s)
                 ELSE EndsWith(call.result.msg, <<"unknown error">>)
        /\ AnswerSays(TRUE) =>
              /\ call.result.kind = "returned"
              /\ HasKey(AnswerJson, <<"output">>) =>
                    call.result.value = DictGet(AnswerJson, <<"output">>)
        /\ call.result.kind = "returned" => AnswerSays(TRUE)

\* The server refused the tool, and call_tool raised with its reason.
C13_Witness ==
    /\ CallDone
    /\ AnswerSays(FALSE)
    /\ DictGet(AnswerJson, <<"error">>) = PyStr(<<"denied">>)
    /\ call.result.kind = "raised"
    /\ EndsWith(call.result.msg, <<"denied">>)

\* C14: one invocation of call_tool hands at most one request to the
\* network, whatever the outcome, and after a transport failure, an HTTP
\* error status or a response that does not say success true, call_tool has
\* not returned normally.
C14_SingleAttempt ==
    /\ Len(call.sent) <= call.invocations
    /\ (CallDone /\ ~AnswerSays(TRUE)) => call.result.kind = "raised"

\* The connection failed, one request was made, and call_tool raised.
C14_Witness ==
    /\ CallDone
    /\ call.answer.kind = "URLError"
    /\ Len(call.sent) = 1
    /\ call.result.kind = "raised"

\* The configured orchestrator URL without the slashes it ends with.
IsBaseOf(base, configured) ==
    /\ Len(base) <= Len(configured)
    /\ base = SubSeq(configured, 1, Len(base))
    /\ \A i \in (Len(base) + 1)..Len(configured) : configured[i] = "/"
    /\ base # <<>> => base[Len(base)] # "/"
HeaderOf(request, k) ==
    (request.headers[CHOOSE i \in 1..Len(request.headers) :
                        request.headers[i].k = k]).v

\* C15: a request that went out is a POST to
\* {orchestrator base}/worker/{job id}/tools/call with the headers
\* Authorization: Bearer {token} and Content-Type: application/json and a
\* JSON body whose tool_name is the tool's name and whose parameters are the
\* caller's parameters, or an empty object when none were given; and when the
\* reply says success true, call_tool has returned the reply's output field.
C15_RequestShape ==
    call.sent # <<>> =>
        /\ SentRequest.method = "POST"
        /\ \E n \in 0..Len(call.env["IRONCLAW_ORCHESTRATOR_URL"].val) :
              LET base == SubSeq(call.env["IRONCLAW_ORCHESTRATOR_URL"].val,
                                 1, n) IN
              /\ IsBaseOf(base, call.env["IRONCLAW_ORCHESTRATOR_URL"].val)
              /\ SentRequest.url =
                    base \o <<"/worker/">> \o call.env["IRONCLAW_JOB_ID"].val
                         \o <<"/tools/call">>
        /\ Len(SentRequest.headers) = 2
        /\ HeaderOf(SentRequest, <<"Authorization">>) =
              PyStr(<<"Bearer ">> \o call.env["IRONCLAW_WORKER_TOKEN"].val)
        /\ HeaderOf(SentRequest, <<"Content-Type">>) =
              PyStr(<<"application/json">>)
        /\ DictGet(SentBody, <<"tool_name">>) = PyStr(call.name)
        /\ DictGet(SentBody, <<"parameters">>) =
              IF call.params = PyNone THEN PyDict(<<>>) ELSE call.params
        /\ (CallDone /\ AnswerSays(TRUE)
                /\ HasKey(AnswerJson, <<"output">>)) =>
              call.result = Returned(DictGet(AnswerJson, <<"output">>))

\* With a configured URL that ends in a slash, a call with parameters was
\* sent and has returned the reply's output.
C15_Witness ==
    /\ CallDone
    /\ call.sent # <<>>
    /\ call.env["IRONCLAW_ORCHESTRATOR_URL"].val =
          <<"http://orchestrator:50051", "/">>
    /\ SentRequest.url =
          <<"http://orchestrator:50051", "/worker/", "job-7", "/tools/call">>
    /\ call.params = PyDict(<<Member(<<"message">>, PyStr(<<"hi">>))>>)
    /\ call.result = Returned(PyStr(<<"hello">>))

\* C16: each shortcut makes exactly one call_tool invocation: shell(c) of
\* tool "shell" with {"command": c} and timeout 60 unless one is passed;
\* read_file(p) of "read_file" with {"path": p}; write_file(p, x) of
\* "write_file" with {"path": p, "content": x}; http_get(u) of "http" with
\* {"url": u, "method": "GET"}, plus the headers exactly when non-empty
\* headers are passed, and timeout 30 unless one is passed; and what the
\* shortcut ends with is what call_tool ends with.
C16_Shortcuts ==
    call.pc # "idle" =>
        /\ call.invocations = 1
        /\ call.fn = "shell" =>
              /\ call.name = <<"shell">>
              /\ call.params =
                    PyDict(<<Member(<<"command">>, PyStr(call.args[1]))>>)
              /\ call.timeout_secs =
                    IF call.given = Omitted THEN Secs(60) ELSE call.given
        /\ call.fn = "read_file" =>
              /\ call.name = <<"read_file">>
              /\ call.params =
                    PyDict(<<Member(<<"path">>, PyStr(call.args[1]))>>)
        /\ call.fn = "write_file" =>
              /\ call.name = <<"write_file">>
              /\ call.params =
                    PyDict(<<Member(<<"path">>, PyStr(call.args[1])),
                             Member(<<"content">>, PyStr(call.args[2]))>>)
        /\ call.fn = "http_get" =>
              /\ call.name = <<"http">>
              /\ DictGet(call.params, <<"url">>) = PyStr(call.args[1])
              /\ DictGet(call.params, <<"method">>) = PyStr(<<"GET">>)
              /\ IF call.headers \in {PyNone, PyDict(<<>>)}
                 THEN Len(call.params.m) = 2
                 ELSE /\ Len(call.params.m) = 3
                      /\ DictGet(call.params, <<"headers">>) = call.headers
              /\ call.timeout_secs =
                    IF call.given = Omitted THEN Secs(30) ELSE call.given
        /\ (CallDone /\ call.sent # <<>>) =>
              call.result = ToolResult(call.name, call.answer)

\* shell("ls -la") with no timeout of the caller's went out with 60 seconds
\* and has returned the tool's output.
C16_Witness ==
    /\ CallDone
    /\ call.fn = "shell"
    /\ call.given = Omitted
    /\ call.sent # <<>>
    /\ DictGet(SentBody, <<"timeout_secs">>) = PyInt("60")
    /\ call.result = Returned(PyStr(<<"hello">>))

-----------------------------------------------------------------------------
(* scholarly-assistant/test_http_wrapper.py: MockMcpServer                  *)

RECURSIVE Spaces(_)
Spaces(n) == IF n = 0 THEN <<>> ELSE <<" ">> \o Spaces(n - 1)

\* json.dumps(v, indent=2): every member on a line of its own, two spaces
\* deeper than its container; "," and ": " between.
RECURSIVE DumpIndented(_, _)
RECURSIVE DumpMembersIndented(_, _, _)
DumpMembersIndented(members, isDict, level) ==
    IF members = <<>> THEN <<>>
    ELSE <<NL>> \o Spaces(2 * level)
         \o (IF isDict THEN DumpStr(Head(members).k) \o <<":", " ">> ELSE <<>>)
         \o DumpIndented(Head(members).v, level)
         \o (IF Len(members) > 1 THEN <<",">> ELSE <<>>)
         \o DumpMembersIndented(Tail(members), isDict, level)

DumpIndented(v, level) ==
    CASE v.t = "NoneType" -> <<"null">>
      [] v.t = "bool" -> v.s
      [] v.t = "int" -> v.s
      [] v.t = "str" -> DumpStr(v.s)
      [] v.t = "list" ->
            IF v.m = <<>> THEN <<"[", "]">>
            ELSE <<"[">> \o DumpMembersIndented(v.m, FALSE, level + 1)
                 \o <<NL>> \o Spaces(2 * level) \o <<"]">>
      [] v.t = "dict" ->
            IF v.m = <<>> THEN <<"{", "}">>
            ELSE <<"{">> \o DumpMembersIndented(v.m, TRUE, level + 1)
                 \o <<NL>> \o Spaces(2 * level) \o <<"}">>

\* An entry of a tool's inputSchema properties, and a tool definition.
Property(type, description) ==
    PyDict(<<Member(<<"type">>, PyStr(<<type>>)),
             Member(<<"description">>, PyStr(<<description>>))>>)
ToolDefinition(name, description, properties, required) ==
    PyDict(<<Member(<<"name">>, PyStr(<<name>>)),
             Member(<<"description">>, PyStr(<<description>>)),
             Member(<<"inputSchema">>,
                    PyDict(<<Member(<<"type">>, PyStr(<<"object">>)),
                             Member(<<"properties">>, PyDict(properties)),
                             Member(<<"required">>,
                                    PyList(<<Item(PyStr(<<required>>))>>))>>))>>)

\* Lines 76-125: _get_tools
GetTools(name) ==
    IF name = "semantic_scholar"
    THEN PyList(<<
        Item(ToolDefinition("search_papers",
                "Search for papers in Semantic Scholar",
                <<Member(<<"query">>, Property("string", "Search query")),
                  Member(<<"year">>, Property("string", "Year or year range")),
                  Member(<<"limit">>, Property("number", "Max results"))>>,
                "query")),
        Item(ToolDefinition("get_paper_details",
                "Get detailed information about a paper",
                <<Member(<<"paper_id">>,
                         Property("string", "Semantic Scholar paper ID"))>>,
                "paper_id"))>>)
    ELSE IF name = "arxiv"
    THEN PyList(<<
        Item(ToolDefinition("search_papers", "Search arXiv papers",
                <<Member(<<"query">>, Property("string", "Search query")),
                  Member(<<"max_results">>,
                         Property("number", "Max results"))>>,
                "query")),
        Item(ToolDefinition("download_paper", "Download a paper by arXiv ID",
                <<Member(<<"arxiv_id">>, Property("string", "arXiv ID"))>>,
                "arxiv_id"))>>)
    ELSE PyList(<<>>)

\* One of the papers _execute_tool makes up.
Paper(idKey, id, title, authors, rest) ==
    PyDict(<<Member(<<idKey>>, PyStr(<<id>>)),
             Member(<<"title">>, PyStr(<<title>>)),
             Member(<<"authors">>,
                    PyList([i \in 1..Len(authors) |->
                                Item(PyStr(<<authors[i]>>))]))>> \o rest)

\* Lines 127-162: _execute_tool
ExecuteTool(name, tool_name, arguments) ==
    IF name = "semantic_scholar" /\ tool_name = PyStr(<<"search_papers">>)
    THEN PyDict(<<
        Member(<<"papers">>, PyList(<<
            Item(Paper("paperId", "abc123", "Attention Is All You Need",
                       <<"Vaswani et al.">>,
                       <<Member(<<"year">>, PyInt("2017")),
                         Member(<<"citationCount">>, PyInt("85000")),
                         Member(<<"abstract">>,
                                PyStr(<<"The dominant sequence transduction models...">>))>>)),
            Item(Paper("paperId", "def456",
                       "BERT: Pre-training of Deep Bidirectional Transformers",
                       <<"Devlin et al.">>,
                       <<Member(<<"year">>, PyInt("2018")),
                         Member(<<"citationCount">>, PyInt("65000")),
                         Member(<<"abstract">>,
                                PyStr(<<"We introduce a new language representation model...">>))>>))>>)),
        Member(<<"total">>, PyInt("2"))>>)
    ELSE IF name = "arxiv" /\ tool_name = PyStr(<<"search_papers">>)
    THEN PyDict(<<
        Member(<<"papers">>, PyList(<<
            Item(Paper("id", "2401.12345", "Latest Advances in Transformers",
                       <<"Smith, J.", "Doe, J.">>,
                       <<Member(<<"published">>, PyStr(<<"2024-01-15">>)),
                         Member(<<"summary">>,
                                PyStr(<<"We present recent improvements to transformer architecture...">>))>>))>>)),
        Member(<<"total">>, PyInt("1"))>>)
    ELSE PyDict(<<Member(<<"error">>,
                         PyStr(<<"Unknown tool: ">> \o PyStrOf(tool_name)))>>)

\* dict.get(k, dflt)
GetOr(d, k, dflt) == IF HasKey(d, k) THEN DictGet(d, k) ELSE dflt

\* The JSON-RPC envelope of the mock's answers.
MockResponse(request_id, key, value) ==
    PyDict(<<Member(<<"jsonrpc">>, PyStr(<<"2.0">>)),
             Member(<<"id">>, request_id),
             Member(<<key>>, value)>>)

\* Lines 17-74: MockMcpServer.handle_request
MockHandleRequest(name, request) ==
    LET method == DictGet(request, <<"method">>)
        request_id == DictGet(request, <<"id">>) IN
    IF method = PyStr(<<"initialize">>)
    THEN Returned(MockResponse(request_id, "result",
            PyDict(<<Member(<<"protocolVersion">>, PyStr(<<"2024-11-05">>)),
                     Member(<<"capabilities">>,
                            PyDict(<<Member(<<"tools">>, PyDict(<<>>))>>)),
                     Member(<<"serverInfo">>,
                            PyDict(<<Member(<<"name">>, PyStr(<<name>>)),
                                     Member(<<"version">>,
                                            PyStr(<<"0.1.0">>))>>))>>)))
    ELSE IF method = PyStr(<<"tools/list">>)
    THEN Returned(MockResponse(request_id, "result",
            PyDict(<<Member(<<"tools">>, GetTools(name))>>)))
    ELSE IF method = PyStr(<<"tools/call">>)
    THEN LET params == GetOr(request, <<"params">>, PyDict(<<>>)) IN
         IF params.t # "dict"
         THEN Raised("AttributeError",
                     <<"'", params.t, "' object has no attribute 'get'">>)
         ELSE LET tool_name == DictGet(params, <<"name">>)
                  arguments == GetOr(params, <<"arguments">>, PyDict(<<>>))
                  result == ExecuteTool(name, tool_name, arguments) IN
              Returned(MockResponse(request_id, "result",
                PyDict(<<Member(<<"content">>,
                    PyList(<<Item(PyDict(<<
                        Member(<<"type">>, PyStr(<<"text">>)),
                        Member(<<"text">>,
                               PyStr(DumpIndented(result, 0)))>>))>>))>>)))
    ELSE Returned(MockResponse(request_id, "error",
            PyDict(<<Member(<<"code">>, PyInt("-32601")),
                     Member(<<"message">>,
                            PyStr(<<"Unknown method: ">>
                                    \o PyStrOf(method)))>>)))

\* The requests the mock is handed: JSON-RPC objects with and without a
\* method, an id and params.
MockMethods ==
    { <<>>, <<Member(<<"method">>, PyStr(<<"initialize">>))>>,
      <<Member(<<"method">>, PyStr(<<"tools/list">>))>>,
      <<Member(<<"method">>, PyStr(<<"tools/call">>))>>,
      <<Member(<<"method">>, PyStr(<<"resources/list">>))>>,
      <<Member(<<"method">>, PyNone)>> }
MockIds ==
    { <<>>, <<Member(<<"id">>, PyInt("1"))>>,
      <<Member(<<"id">>, PyStr(<<"req-2">>))>> }
MockParams ==
    { <<>>, <<Member(<<"params">>, PyDict(<<>>))>>,
      <<Member(<<"params">>,
               PyDict(<<Member(<<"name">>, PyStr(<<"search_papers">>)),
                        Member(<<"arguments">>,
                               PyDict(<<Member(<<"query">>,
                                               PyStr(<<"transformers">>))>>))>>))>>,
      <<Member(<<"params">>,
               PyDict(<<Member(<<"name">>, PyStr(<<"download_paper">>))>>))>>,
      <<Member(<<"params">>, PyNone)>>,
      <<Member(<<"params">>, PyList(<<Item(PyStr(<<"search_papers">>))>>))>> }
MockRequests ==
    { PyDict(<<Member(<<"jsonrpc">>, PyStr(<<"2.0">>))>> \o m \o i \o p) :
        m \in MockMethods, i \in MockIds, p \in MockParams }
MockNames == {"semantic_scholar", "arxiv", "other"}

\* MockMcpServer(name).handle_request(request) is called.
MockCalled(name, request) ==
    /\ mock.pc = "idle"
    /\ mock' = [mock EXCEPT !.pc = "called", !.name = name,
                            !.request = request]
    /\ UNCHANGED <<bridgeVars, call, doc>>

\* handle_request returns its response, or raises.
MockReturns ==
    /\ mock.pc = "called"
    /\ LET r == MockHandleRequest(mock.name, mock.request) IN
       mock' = [mock EXCEPT !.pc = "done", !.raised = r.exc,
                            !.response = r.value]
    /\ UNCHANGED <<bridgeVars, call, doc>>

InitMock ==
    /\ BridgeAtRest
    /\ call = NoCall
    /\ mock = NoMock
    /\ doc = NoDoc

NextMock ==
    \/ \E name \in MockNames, request \in MockRequests :
            MockCalled(name, request)
    \/ MockReturns

\* A test that hands the mock backend one request.
SpecMock == InitMock /\ [][NextMock]_vars

\* C17: once handle_request is over it has returned a response (it has not
\* raised) whose id is the request's id and which has exactly one of result
\* and error: a result when the method is initialize, tools/list or
\* tools/call, and otherwise, a missing method included, an error with code
\* -32601 and message "Unknown method: <method>".
C17_MockAnswers ==
    mock.pc = "done" =>
        LET method == DictGet(mock.request, <<"method">>) IN
        /\ mock.raised = ""
        /\ mock.response.t = "dict"
        /\ DictGet(mock.response, <<"id">>) = DictGet(mock.request, <<"id">>)
        /\ HasKey(mock.response, <<"result">>)
              # HasKey(mock.response, <<"error">>)
        /\ IF method \in {PyStr(<<"initialize">>), PyStr(<<"tools/list">>),
                          PyStr(<<"tools/call">>)}
           THEN HasKey(mock.response, <<"result">>)
           ELSE /\ CodeOf(mock.response) = PyInt("-32601")
                /\ MessageOf(mock.response) =
                       PyStr(<<"Unknown method: ">> \o PyStrOf(method))

-----------------------------------------------------------------------------
(* scripts/update_feature_parity.py                                        *)
(* A document is a sequence of characters, the two markers and the "# "    *)
(* that opens a title being one character each.                            *)

START_MARKER == "<!-- parity:auto:start -->"
END_MARKER == "<!-- parity:auto:end -->"
TitleHash == "# "

\* The grave accent (a character this notation's strings cannot hold).
Backtick == "GRAVE ACCENT"

MaxDocLen == 4

\* Lines 22-28: build_auto_block
BuildAutoBlock(sync_sha, pr_number) ==
    <<START_MARKER, NL, "> Auto-synced for PR #">> \o pr_number
        \o <<" at commit ", Backtick>> \o sync_sha
        \o <<Backtick, ".", NL, "> Managed by ", Backtick,
             ".github/workflows/update-feature-parity.yml", Backtick, ".",
             NL, END_MARKER, NL>>

MinOf(S) == CHOOSE x \in S : \A y \in S : x <= y

\* content.splitlines(keepends=True)
RECURSIVE SplitLines(_)
SplitLines(chars) ==
    IF chars = <<>> THEN <<>>
    ELSE LET ends == {i \in 1..Len(chars) : chars[i] = NL}
             n == IF ends = {} THEN Len(chars) ELSE MinOf(ends) IN
         <<SubSeq(chars, 1, n)>>
            \o SplitLines(SubSeq(chars, n + 1, Len(chars)))

\* "".join(lines)
RECURSIVE Join(_)
Join(lines) == IF lines = <<>> THEN <<>> ELSE Head(lines) \o Join(Tail(lines))

\* line.startswith("# ")
StartsWithHash(line) == line # <<>> /\ line[1] = TitleHash

\* line.strip() == ""
IsBlank(line) == \A i \in 1..Len(line) : line[i] \in Whitespace

\* Lines 31-49: insert_block_after_title
InsertBlockAfterTitle(content, block) ==
    LET lines == SplitLines(content)
        titles == {idx \in 1..Len(lines) : StartsWithHash(lines[idx])} IN
    IF titles = {}
    THEN IF content # <<>> THEN block \o <<NL>> \o content ELSE block
    ELSE LET title_index == MinOf(titles)
             insert_at == IF title_index + 1 <= Len(lines)
                              /\ IsBlank(lines[title_index + 1])
                          THEN title_index + 1 ELSE title_index IN
         Join(SubSeq(lines, 1, insert_at)) \o <<NL>> \o block \o <<NL>>
            \o Join(SubSeq(lines, insert_at + 1, Len(lines)))

\* A pattern written with .* in place of .*?, which runs to the last end
\* marker.
SearchGreedy(content) ==
    LET starts == {i \in 1..Len(content) :
                      /\ content[i] = START_MARKER
                      /\ \E j \in (i + 1)..Len(content) :
                            content[j] = END_MARKER} IN
    IF starts = {} THEN [found |-> FALSE, from |-> 0, to |-> 0]
    ELSE LET from == MinOf(starts)
             end == CHOOSE j \in (from + 1)..Len(content) :
                       /\ content[j] = END_MARKER
                       /\ \A k \in (j + 1)..Len(content) :
                             content[k] # END_MARKER IN
         [found |-> TRUE, from |-> from,
          to |-> IF end < Len(content) /\ content[end + 1] = NL
                 THEN end + 1 ELSE end]

\* Lines 54-57, 59: pattern.search(content) for START_MARKER .*? END_MARKER
\* \n? under re.DOTALL: the leftmost start marker that an end marker
\* follows, up to the nearest end marker and one newline after it.
Search(content) ==
    LET starts == {i \in 1..Len(content) :
                      /\ content[i] = START_MARKER
                      /\ \E j \in (i + 1)..Len(content) :
                            content[j] = END_MARKER} IN
    IF starts = {} THEN [found |-> FALSE, from |-> 0, to |-> 0]
    ELSE LET from == MinOf(starts)
             end == MinOf({j \in (from + 1)..Len(content) :
                              content[j] = END_MARKER}) IN
         [found |-> TRUE, from |-> from,
          to |-> IF end < Len(content) /\ content[end + 1] = NL
                 THEN end + 1 ELSE end]

\* The replacement string as re.sub expands it: an escaped n is a newline.
ExpandTemplate(repl) ==
    [i \in 1..Len(repl) |-> IF repl[i] = EscNL THEN NL ELSE repl[i]]

\* Lines 52-62: update_content
UpdateContent(content, sync_sha, pr_number) ==
    LET block == BuildAutoBlock(sync_sha, pr_number)
        match == Search(content) IN
    IF match.found
    THEN SubSeq(content, 1, match.from - 1) \o ExpandTemplate(block)
            \o SubSeq(content, match.to + 1, Len(content))
    ELSE InsertBlockAfterTitle(content, block)

\* The documents update_content is handed: every text of up to MaxDocLen
\* characters, and a parity document whose block an earlier run wrote.
DocChars == {START_MARKER, END_MARKER, TitleHash, NL, "x"}
StaleDoc ==
    <<TitleHash, "x", NL, NL>> \o BuildAutoBlock(<<"0ld5ha">>, <<"7">>)
        \o <<"x", NL>>
Docs == UNION {[1..n -> DocChars] : n \in 0..MaxDocLen} \cup {StaleDoc}
Syncs ==
    { [sync_sha |-> <<"abc1234">>, pr_number |-> <<"42">>],
      [sync_sha |-> <<"def5678">>, pr_number |-> <<"43">>] }

\* Lines 73-76: main() reads the document and updates it.
UpdateOnce ==
    /\ doc.pc = "read"
    /\ doc' = [doc EXCEPT !.pc = "once",
                          !.once = UpdateContent(doc.content, doc.sync_sha,
                                                 doc.pr_number)]
    /\ UNCHANGED <<bridgeVars, call, mock>>

\* The workflow runs again for the same commit and pull request, on the
\* document the first run wrote.
UpdateTwice ==
    /\ doc.pc = "once"
    /\ doc' = [doc EXCEPT !.pc = "twice",
                          !.twice = UpdateContent(doc.once, doc.sync_sha,
                                                  doc.pr_number)]
    /\ UNCHANGED <<bridgeVars, call, mock>>

InitDoc ==
    /\ BridgeAtRest
    /\ call = NoCall
    /\ mock = NoMock
    /\ doc \in {[NoDoc EXCEPT !.pc = "read", !.content = c,
                              !.sync_sha = s.sync_sha,
                              !.pr_number = s.pr_number] :
                   c \in Docs, s \in Syncs}

NextDoc == UpdateOnce \/ UpdateTwice

\* The parity document updated twice over.
SpecDoc == InitDoc /\ [][NextDoc]_vars

\* C18: updating a document a second time with the same commit and pull
\* request leaves it as the first update wrote it.
C18_Idempotent == doc.pc = "twice" => doc.twice = doc.once

\* A document has an auto block when an end marker follows a start marker;
\* the block runs from the first such start marker to the nearest end marker
\* after it, and takes the newline that ends the end marker's line with it.
HasBlock(c) ==
    \E i, j \in 1..Len(c) : i < j /\ c[i] = START_MARKER /\ c[j] = END_MARKER
BlockFrom(c) ==
    MinOf({i \in 1..Len(c) :
              /\ c[i] = START_MARKER
              /\ \E j \in (i + 1)..Len(c) : c[j] = END_MARKER})
BlockEnd(c) ==
    MinOf({j \in (BlockFrom(c) + 1)..Len(c) : c[j] = END_MARKER})
AfterBlock(c) ==
    SubSeq(c, IF BlockEnd(c) < Len(c) /\ c[BlockEnd(c) + 1] = NL
              THEN BlockEnd(c) + 2 ELSE BlockEnd(c) + 1, Len(c))
\* Where the top-level title starts: the first "# " that opens a line.
TitleStarts(c) ==
    {i \in 1..Len(c) : c[i] = TitleHash /\ (i = 1 \/ c[i - 1] = NL)}
\* k characters of c hold the title's line and at most blank text after it,
\* and end where a line ends.
BelowTitle(c, k) ==
    LET t == MinOf(TitleStarts(c))
        ends == {i \in t..Len(c) : c[i] = NL}
        e == IF ends = {} THEN Len(c) ELSE MinOf(ends) IN
    /\ e <= k
    /\ \A i \in (e + 1)..k : c[i] \in Whitespace
    /\ k = Len(c) \/ c[k] = NL

\* C19: when the document holds an auto block, the updated document is the
\* text before the block's start marker unchanged, then the fresh block,
\* which names the new commit and pull request, then the text after the old
\* block unchanged, so that nothing of the old block is left; when it holds
\* no block but a top-level title, the updated document is the document with
\* the fresh block, between two newlines, put in below the title.
C19_BlockReplaced ==
    doc.pc \in {"once", "twice"} =>
        LET c == doc.content
            r == doc.once
            block == BuildAutoBlock(doc.sync_sha, doc.pr_number) IN
        /\ Holds(block, doc.sync_sha) /\ Holds(block, doc.pr_number)
        /\ HasBlock(c) =>
              /\ SubSeq(r, 1, BlockFrom(c) - 1) = SubSeq(c, 1, BlockFrom(c) - 1)
              /\ SubSeq(r, BlockFrom(c), BlockFrom(c) + Len(block) - 1) = block
              /\ SubSeq(r, BlockFrom(c) + Len(block), Len(r)) = AfterBlock(c)
        /\ (~HasBlock(c) /\ TitleStarts(c) # {}) =>
              \E k \in 1..Len(c) :
                  /\ BelowTitle(c, k)
                  /\ r = SubSeq(c, 1, k) \o <<NL>> \o block \o <<NL>>
                           \o SubSeq(c, k + 1, Len(c))

\* The document an earlier run wrote has been updated: the old commit is
\* gone from it, the new one is there, and its last line is as it was.
C19_Witness ==
    /\ doc.pc = "once"
    /\ doc.content = StaleDoc
    /\ ~Holds(doc.once, <<"0ld5ha">>)
    /\ Holds(doc.once, doc.sync_sha)
    /\ EndsWith(doc.once, <<END_MARKER, NL, "x", NL>>)

-----------------------------------------------------------------------------
\* One line of text: characters without a newline, then a newline.
OneLine(chars) ==
    /\ chars # <<>>
    /\ chars[Len(chars)] = NL
    /\ \A i \in 1..(Len(chars) - 1) : chars[i] # NL

\* What has happened so far within request r, in the order of its steps.
C20_StepsSoFar ==
    \A r \in Req :
        \* a process is spawned only for a parsed body
        /\ spawned[r] > 0 => data[r] # Unbound /\ data[r] = Inbound(r).val
        \* the request is written only to a spawned process, as one JSON
        \* line that reads back as the parsed body
        /\ proc[r].stdin # <<>> =>
              /\ spawned[r] = 1
              /\ OneLine(proc[r].stdin)
              /\ JsonLoads(proc[r].stdin).ok
              /\ JsonLoads(proc[r].stdin).val = data[r]
        \* stdin is closed only once the request is written
        /\ proc[r].stdinClosed => proc[r].stdin # <<>>
        \* the bridge waits for the exit only with stdin closed
        /\ pc[r] = "wait" => proc[r].stdinClosed
        \* the response comes only after the exit of the process, if one
        \* was spawned
        /\ (resp[r] # NoResp /\ spawned[r] > 0) =>
              /\ Exited(r)
              /\ resp[r] = Classify(data[r], proc[r])

\* C20: within one request the body is parsed, then the process is spawned,
\* then the request is written to it as a single JSON line ending in a
\* newline and its stdin is closed, then the bridge waits for its exit, and
\* only then is the outcome classified and the response produced: every step
\* finds the earlier ones done, the handler moves through them in this
\* order only, stdin is closed before the wait begins, and a process's stdin
\* never holds more than the one request line.
C20_StepOrder ==
    /\ [](C20_StepsSoFar)
    /\ [][\A r \in Req :
            /\ pc'[r] # pc[r] =>
                  <<pc[r], pc'[r]>> \in
                      { <<"idle", "json">>, <<"json", "spawn">>,
                        <<"json", "done">>, <<"spawn", "communicate">>,
                        <<"spawn", "done">>, <<"communicate", "wait">>,
                        <<"wait", "done">> }
            /\ proc'[r].stdin # proc[r].stdin =>
                  /\ proc[r].stdin = <<>>
                  /\ proc[r].state = "running"
                  /\ ~proc[r].stdinClosed]_vars

\* A request answered 200 after its process read the one request line from
\* a closed stdin and exited.
C20_Witness ==
    \E r \in Req :
        /\ Done(r) /\ Exited(r) /\ resp[r].status = 200
        /\ proc[r].stdinClosed
        /\ proc[r].stdin = JsonDumps(data[r]) \o <<NL>>

-----------------------------------------------------------------------------
\* C21: on the event loop, every request whose backend process has
\* terminated is eventually answered, once, whatever the other requests'
\* processes do, those that never exit included.
C21_HungBackendDelaysOnlyItself ==
    \A r \in Req : Exited(r) ~> (Done(r) /\ responses[r] = 1)

\* A request answered from its exited process while another request still
\* waits on a process that has not exited.
C21_Witness ==
    \E r, q \in Req :
        /\ r # q
        /\ Done(r) /\ Exited(r) /\ responses[r] = 1
        /\ pc[q] = "wait" /\ proc[q].state = "running" /\ responses[q] = 0

\* C22: a request that went out was handed to the transport with a timeout
\* of the timeout_secs call_tool was given plus 5 seconds, whatever integer
\* that is, and of 60 plus 5 seconds when call_tool was given none.
C22_TransportTimeout ==
    call.sent # <<>> =>
        SentRequest.timeout =
            (IF call.timeout_secs.is = "int" THEN call.timeout_secs.secs
             ELSE 60) + 5

====
